---- MODULE Spec2Model ----
(***************************************************************************)
(* Model of paperqa/llms.py: VectorStore / NumpyVectorStore.               *)
(*                                                                         *)
(* Floats are modelled exactly: a float is a record [kind, v] where kind   *)
(* is "fin" (v is the value), "nan", "ninf" or "pinf".  Cosine scores are  *)
(* kept in units of 1/100, mmr_lambda in units of 1/10, so MMR scores are  *)
(* in units of 1/1000.  Embeddings are 2-d integer vectors with integer    *)
(* norm (or the zero vector), so every quotient the code forms is exact.   *)
(***************************************************************************)
EXTENDS Integers, Sequences, FiniteSets, TLC

\* ---------------------------------------------------------------- bounds
MaxTexts == 4
MaxBatch == 2
MaxK == 4

\* ------------------------------------------------------------ input sets
Ks == (-1)..MaxK
Tasks == {"main", "other"}
MainTask == "main"
\* mmr_lambda in tenths: 0.0, 0.5, 1.0
Lambdas == {0, 5, 10}

\* the Embeddables that can be added: item i has embedding EmbTable[i];
\* item 3 is the zero vector
EmbTable == << <<5, 0>>, <<4, 3>>, <<0, 0>> >>
Items == 1..Len(EmbTable)
EmbOf(i) == EmbTable[i]

\* the query strings: embed_documents([q]) returns QueryTable[q]; query 2
\* embeds to the zero vector
QueryTable == << <<5, 0>>, <<0, 0>> >>
Queries == 1..Len(QueryTable)
EmbedQuery(q) == QueryTable[q]

\* hash(t): content hash of an Embeddable; equal contents hash equal
HashOf(i) == i

\* Optional values: None is the empty tuple, a present value x is <<x>>
None == << >>
Some(x) == << x >>
IsNone(o) == o = << >>
Get(o) == o[1]

\* --------------------------------------------------------------- floats
Fin(n) == [kind |-> "fin", v |-> n]
NaN == [kind |-> "nan", v |-> 0]
NegInf == [kind |-> "ninf", v |-> 0]
PosInf == [kind |-> "pinf", v |-> 0]

\* IEEE quotient of two integers; the divisions formed here are exact
FDiv(num, den) ==
  IF den = 0
  THEN (IF num = 0 THEN NaN ELSE IF num > 0 THEN PosInf ELSE NegInf)
  ELSE Fin(num \div den)

\* a < b for non-NaN floats
FLess(a, b) ==
  CASE a.kind = "ninf" -> b.kind # "ninf"
    [] a.kind = "pinf" -> FALSE
    [] OTHER -> (b.kind = "pinf" \/ (b.kind = "fin" /\ a.v < b.v))

\* c * x for an integer c >= 0
FScale(c, x) ==
  CASE x.kind = "nan" -> NaN
    [] x.kind = "fin" -> Fin(c * x.v)
    [] OTHER -> (IF c = 0 THEN NaN ELSE x)

\* a - b
FSub(a, b) ==
  CASE a.kind = "nan" \/ b.kind = "nan" -> NaN
    [] a.kind = "fin" /\ b.kind = "fin" -> Fin(a.v - b.v)
    [] a.kind = "fin" -> (IF b.kind = "pinf" THEN NegInf ELSE PosInf)
    [] b.kind = "fin" -> a
    [] OTHER -> (IF a.kind = b.kind THEN NaN ELSE a)

\* np.nan_to_num(x, nan=-np.inf) on one entry
nan_to_num(x) == IF x.kind = "nan" THEN NegInf ELSE x

\* ------------------------------------------------------------- sequences
Min(a, b) == IF a < b THEN a ELSE b
Max(a, b) == IF a > b THEN a ELSE b

\* Python s[:k], negative k included
Slice(s, k) ==
  IF k >= 0 THEN SubSeq(s, 1, Min(k, Len(s)))
  ELSE SubSeq(s, 1, Max(Len(s) + k, 0))

RECURSIVE SelectIdx(_, _)
\* np.where(mask)[0]: the (1-based) positions where mask is TRUE, ascending
SelectIdx(mask, i) ==
  IF i > Len(mask) THEN << >>
  ELSE (IF mask[i] THEN << i >> ELSE << >>) \o SelectIdx(mask, i + 1)

Perms(n) == { p \in [1..n -> 1..n] : \A i, j \in 1..n : i # j => p[i] # p[j] }

\* ------------------------------------------------------ cosine_similarity
Dot(a, b) == a[1] * b[1] + a[2] * b[2]
\* np.linalg.norm of one row (integer by choice of EmbTable / QueryTable)
Norm(a) == CHOOSE n \in 0..(Dot(a, a)) : n * n = Dot(a, a)

\* a @ b.T / (norm(a, axis=1) * norm(b, axis=1)): the product of norms is a
\* 1-d array that numpy broadcasts along the columns of a @ b.T
cosine_similarity(A, B) ==
  LET norm_product(j) ==
        Norm(A[IF Len(A) = 1 THEN 1 ELSE j]) * Norm(B[j])
  IN [i \in 1..Len(A) |->
       [j \in 1..Len(B) |-> FDiv(Dot(A[i], B[j]) * 100, norm_product(j))]]

\* itertools.zip_longest(*lists): one tuple per rank, None where a list is
\* exhausted (entries are wrapped as Optional values)
zip_longest(lists) ==
  LET lens == { Len(lists[p]) : p \in 1..Len(lists) }
      longest == IF lens = {} THEN 0 ELSE CHOOSE n \in lens : \A m \in lens : m <= n
  IN [r \in 1..longest |->
       [p \in 1..Len(lists) |->
          IF r <= Len(lists[p]) THEN Some(lists[p][r]) ELSE None]]

RECURSIVE chain_from_iterable(_)
\* itertools.chain.from_iterable(rows)
chain_from_iterable(rows) ==
  IF rows = << >> THEN << >>
  ELSE Head(rows) \o chain_from_iterable(Tail(rows))

RECURSIVE DropNone(_)
\* [t for t in ... if t is not None]
DropNone(s) ==
  IF s = << >> THEN << >>
  ELSE (IF IsNone(Head(s)) THEN << >> ELSE << Get(Head(s)) >>) \o DropNone(Tail(s))

\* a merge that chains the per-partition lists without zipping them
InterleaveChained(lists) == chain_from_iterable(lists)

\* the merge expression of partitioned_similarity_search, before [:k]
Interleave(lists) == DropNone(chain_from_iterable(zip_longest(lists)))

\* ----------------------------------------------------------------- state
VARIABLES
  texts,              \* NumpyVectorStore.texts: sequence of items
  texts_hashes,       \* VectorStore.texts_hashes: set of hashes
  embeddings_matrix,  \* NumpyVectorStore._embeddings_matrix: None or rows
  texts_filter,       \* NumpyVectorStore._texts_filter: None or boolean mask
  mmr_lambda,         \* VectorStore.mmr_lambda, in tenths
  mode,               \* the embedding model's mode (set_mode)
  filter_owner,       \* history: the task whose call installed texts_filter
  call                \* per task: the search call in flight and its outcome

vars == << texts, texts_hashes, embeddings_matrix, texts_filter, mmr_lambda,
           mode, filter_owner, call >>

store == << texts, texts_hashes, embeddings_matrix, mmr_lambda >>

\* a task with no call in flight
IdleCall ==
  [pc |-> "idle", op |-> "none", q |-> 0, k |-> 0, search_k |-> 0,
   partitioned |-> FALSE, pf |-> None, text_partitions |-> << >>,
   parts |-> << >>, pkeys |-> << >>, ptexts |-> << >>, pidx |-> << >>,
   pscores |-> << >>,
   cand_texts |-> << >>, cand_scores |-> << >>, ran_mmr |-> FALSE,
   outcome |-> "none", error |-> "none",
   res_texts |-> << >>, res_idx |-> << >>, res_scores |-> << >>,
   selected |-> << >>,
   embed_calls |-> 0, embed_in_query_mode |-> TRUE,
   foreign_filter |-> FALSE]

Init ==
  /\ texts = << >>
  /\ texts_hashes = {}
  /\ embeddings_matrix = None
  /\ texts_filter = None
  /\ mmr_lambda \in Lambdas
  /\ mode = "DOCUMENT"
  /\ filter_owner = "nobody"
  /\ call = [t \in Tasks |-> IdleCall]

AllIdle == \A t \in Tasks : call[t].pc = "idle"

\* ------------------------------------------------------- add / clear
\* VectorStore.add_texts_and_embeddings (the super() call)
VectorStore_add_texts_and_embeddings(batch) ==
  texts_hashes \cup { HashOf(batch[i]) : i \in 1..Len(batch) }

\* NumpyVectorStore.add_texts_and_embeddings
add_texts_and_embeddings(batch) ==
  /\ AllIdle
  /\ Len(texts) + Len(batch) <= MaxTexts
  /\ texts_hashes' = VectorStore_add_texts_and_embeddings(batch)
  /\ texts' = texts \o batch
  /\ embeddings_matrix' = Some([i \in 1..Len(texts') |-> EmbOf(texts'[i])])
  /\ UNCHANGED << texts_filter, mmr_lambda, mode, filter_owner, call >>

\* NumpyVectorStore.clear
clear ==
  /\ AllIdle
  /\ texts_hashes' = {}
  /\ texts' = << >>
  /\ embeddings_matrix' = None
  /\ texts_filter' = None
  /\ filter_owner' = "nobody"
  /\ UNCHANGED << mmr_lambda, mode, call >>

Batches == UNION { [1..n -> Items] : n \in 0..MaxBatch }

\* ------------------------------------------------- similarity_search
\* np.argsort(-scores): numpy's default sort kind is not stable, so every
\* permutation that puts the negated scores in non-decreasing order is a
\* possible value
argsort_descending(scores) ==
  { p \in Perms(Len(scores)) :
      \A i, j \in 1..Len(scores) : i < j => ~FLess(scores[p[i]], scores[p[j]]) }

\* What similarity_search does after the awaited embedding returned np_query:
\* the set of possible outcomes [error, idx, texts, scores] (lines 254-273).
\* kmin is min(k, len(self.texts)), nonzero here.
SearchAfterEmbed(np_query, kmin) ==
  IF IsNone(embeddings_matrix) \/
     (IsNone(texts_filter) /\ Len(Get(embeddings_matrix)) = 0)
  THEN \* cosine_similarity on None / on a 1-d empty array raises in numpy
       { [error |-> "NumpyError", idx |-> << >>, texts |-> << >>, scores |-> << >>] }
  ELSE IF ~IsNone(texts_filter) /\
          Len(Get(texts_filter)) # Len(Get(embeddings_matrix))
  THEN \* boolean index of the wrong length
       { [error |-> "IndexError", idx |-> << >>, texts |-> << >>, scores |-> << >>] }
  ELSE
    LET original_indices ==
          IF ~IsNone(texts_filter) THEN SelectIdx(Get(texts_filter), 1)
          ELSE [i \in 1..Len(texts) |-> i]
        embedding_matrix ==
          [r \in 1..Len(original_indices) |->
             Get(embeddings_matrix)[original_indices[r]]]
        raw == cosine_similarity(<< np_query >>, embedding_matrix)[1]
        similarity_scores == [r \in 1..Len(raw) |-> nan_to_num(raw[r])]
    IN { [error |-> "none",
          idx |-> Slice([r \in 1..Len(p) |-> original_indices[p[r]]], kmin),
          texts |-> Slice([r \in 1..Len(p) |-> texts[original_indices[p[r]]]], kmin),
          scores |-> Slice([r \in 1..Len(p) |-> similarity_scores[p[r]]], kmin)]
         : p \in argsort_descending(similarity_scores) }

\* ------------------------------------- max_marginal_relevance_search
\* selected_similarities.max(axis=1) for one row: NaN propagates
RowMax(row, selected_indices) ==
  IF \E c \in 1..Len(selected_indices) : row[selected_indices[c]].kind = "nan"
  THEN NaN
  ELSE LET vals == { row[selected_indices[c]] : c \in 1..Len(selected_indices) }
       IN CHOOSE x \in vals : \A y \in vals : ~FLess(x, y)

\* mmr_scores.argmax(): the first NaN if there is one, else the first maximum
argmax(a) ==
  IF \E i \in 1..Len(a) : a[i].kind = "nan"
  THEN CHOOSE i \in 1..Len(a) :
         a[i].kind = "nan" /\ \A j \in 1..(i - 1) : a[j].kind # "nan"
  ELSE CHOOSE i \in 1..Len(a) :
         /\ \A j \in 1..Len(a) : ~FLess(a[i], a[j])
         /\ \A j \in 1..(i - 1) : FLess(a[j], a[i])

InSeq(x, s) == \E i \in 1..Len(s) : s[i] = x

RECURSIVE MMRLoop(_, _, _, _, _)
\* the while loop of lines 153-165; indices are 1-based.  The result is
\* [error, selected]; list.remove raises ValueError when the index picked is
\* not among the remaining ones.
MMRLoop(selected_indices, remaining_indices, k, np_scores, similarity_matrix) ==
  IF ~(Len(selected_indices) < k)
  THEN [error |-> "none", selected |-> selected_indices]
  ELSE
    LET n == Len(np_scores)
        max_sim_to_selected ==
          [i \in 1..n |-> RowMax(similarity_matrix[i], selected_indices)]
        raw_mmr ==
          [i \in 1..n |->
             FSub(FScale(mmr_lambda, np_scores[i]),
                  FScale(10 - mmr_lambda, max_sim_to_selected[i]))]
        mmr_scores ==
          [i \in 1..n |-> IF InSeq(i, selected_indices) THEN NegInf ELSE raw_mmr[i]]
        max_mmr_index == argmax(mmr_scores)
    IN IF ~InSeq(max_mmr_index, remaining_indices)
       THEN [error |-> "ValueError", selected |-> Append(selected_indices, max_mmr_index)]
       ELSE MMRLoop(Append(selected_indices, max_mmr_index),
                    SelectSeq(remaining_indices, LAMBDA x : x # max_mmr_index),
                    k, np_scores, similarity_matrix)

\* lines 143-169: what max_marginal_relevance_search does with the fetched
\* candidates: [error, ran_mmr, sel] where sel indexes the candidate list
MMRSelect(cand_texts, cand_scores, k) ==
  IF Len(cand_texts) <= k \/ mmr_lambda >= 10
  THEN [error |-> "none", ran_mmr |-> FALSE,
        sel |-> [i \in 1..Len(cand_texts) |-> i]]
  ELSE IF Len(cand_texts) = 0
  THEN \* cosine_similarity on a 1-d empty array raises in numpy
       [error |-> "NumpyError", ran_mmr |-> TRUE, sel |-> << >>]
  ELSE
    LET embeddings == [i \in 1..Len(cand_texts) |-> EmbOf(cand_texts[i])]
        similarity_matrix == cosine_similarity(embeddings, embeddings)
        loop == MMRLoop(<< 1 >>, [i \in 1..(Len(cand_texts) - 1) |-> i + 1],
                        k, cand_scores, similarity_matrix)
    IN [error |-> loop.error, ran_mmr |-> TRUE, sel |-> loop.selected]

\* ----------------------------------- partitioned_similarity_search
RECURSIVE SortedUnique(_)
\* np.unique(keys): the distinct values, ascending
SortedUnique(keys) ==
  LET vals == { keys[i] : i \in 1..Len(keys) }
  IN IF vals = {} THEN << >>
     ELSE LET lo == CHOOSE x \in vals : \A y \in vals : x <= y
          IN << lo >> \o SortedUnique(SelectSeq(keys, LAMBDA x : x # lo))

\* text_partitions == partition
Mask(text_partitions, partition) ==
  [i \in 1..Len(text_partitions) |-> text_partitions[i] = partition]

EmptyResult == [idx |-> << >>, texts |-> << >>, scores |-> << >>]

\* lines 227-238: the merged per-partition lists, cut to k
MergePartitions(rec) ==
  [idx |-> Slice(Interleave(rec.pidx), rec.search_k),
   texts |-> Slice(Interleave(rec.ptexts), rec.search_k),
   scores |-> Slice(Interleave(rec.pscores), rec.search_k)]

\* ------------------------------------------------ the call of a task
Effect(rec, flt, own, md) == [rec |-> rec, flt |-> flt, own |-> own, md |-> md]

Raised(rec, err) == [rec EXCEPT !.pc = "done", !.outcome = "raised", !.error = err]

\* similarity_search has called set_mode(QUERY) and reaches the awaited
\* embed_documents call (lines 248-250); md is the mode at that invocation
Suspended(rec, md) ==
  [rec EXCEPT !.pc = "await", !.embed_calls = @ + 1,
              !.embed_in_query_mode = @ /\ (md = "QUERY")]

\* the search stage handed its result cand to the top-level operation, which
\* returns it (similarity_search, partitioned_similarity_search) or runs
\* lines 143-169 on it (max_marginal_relevance_search)
Complete(rec, cand) ==
  IF rec.op = "mmr"
  THEN LET r == MMRSelect(cand.texts, cand.scores, rec.k)
           base == [rec EXCEPT !.cand_texts = cand.texts,
                               !.cand_scores = cand.scores,
                               !.ran_mmr = r.ran_mmr,
                               !.selected = r.sel]
       IN IF r.error # "none" THEN Raised(base, r.error)
          ELSE [base EXCEPT
                  !.pc = "done", !.outcome = "returned",
                  !.res_idx = [i \in 1..Len(r.sel) |-> cand.idx[r.sel[i]]],
                  !.res_texts = [i \in 1..Len(r.sel) |-> cand.texts[r.sel[i]]],
                  !.res_scores = [i \in 1..Len(r.sel) |-> cand.scores[r.sel[i]]]]
  ELSE [rec EXCEPT !.pc = "done", !.outcome = "returned",
                   !.res_idx = cand.idx, !.res_texts = cand.texts,
                   !.res_scores = cand.scores]

\* The search stage of a call up to its first suspension or its end:
\* similarity_search lines 243-250, or partitioned_similarity_search lines
\* 213-221 (and 222-238 when no partition search suspends).
StartStage(t, rec, pf_raises) ==
  LET kmin == Min(rec.search_k, Len(texts))
  IN IF ~rec.partitioned
     THEN IF kmin = 0
          THEN Effect(Complete(rec, EmptyResult), texts_filter, filter_owner, mode)
          ELSE Effect(Suspended(rec, "QUERY"), texts_filter, filter_owner, "QUERY")
     ELSE IF Len(texts) > 0 /\ pf_raises
     THEN Effect(Raised(rec, "PartitionFnError"), texts_filter, filter_owner, mode)
     ELSE
       LET tp == [i \in 1..Len(texts) |-> Get(rec.pf)[texts[i]]]
           parts == SortedUnique(tp)
           rec1 == [rec EXCEPT !.text_partitions = tp, !.parts = parts]
           allempty == [p \in 1..Len(parts) |-> << >>]
           rec2 == [rec1 EXCEPT !.parts = << >>, !.pkeys = parts,
                                !.pidx = allempty, !.ptexts = allempty,
                                !.pscores = allempty]
       IN IF parts = << >> \/ kmin = 0
          THEN Effect(Complete(rec2, MergePartitions(rec2)), None, "nobody", mode)
          ELSE Effect(Suspended(rec1, "QUERY"), Some(Mask(tp, parts[1])), t, "QUERY")

Apply(t, e) ==
  /\ call' = [call EXCEPT ![t] = e.rec]
  /\ texts_filter' = e.flt
  /\ filter_owner' = e.own
  /\ mode' = e.md
  /\ UNCHANGED store

\* NumpyVectorStore.similarity_search is called
similarity_search(t, q, k) ==
  /\ call[t].pc = "idle"
  /\ Apply(t, StartStage(t, [IdleCall EXCEPT !.op = "sim", !.q = q, !.k = k,
                                            !.search_k = k], FALSE))

\* NumpyVectorStore.partitioned_similarity_search is called
partitioned_similarity_search(t, q, k, pf, pf_raises) ==
  /\ call[t].pc = "idle"
  /\ Apply(t, StartStage(t, [IdleCall EXCEPT !.op = "part", !.q = q, !.k = k,
                                            !.search_k = k, !.partitioned = TRUE,
                                            !.pf = Some(pf)], pf_raises))

\* VectorStore.max_marginal_relevance_search is called; pfo is the optional
\* partitioning_fn
max_marginal_relevance_search(t, q, k, fetch_k, pfo, pf_raises) ==
  /\ call[t].pc = "idle"
  /\ LET rec == [IdleCall EXCEPT !.op = "mmr", !.q = q, !.k = k,
                                 !.search_k = fetch_k,
                                 !.partitioned = ~IsNone(pfo), !.pf = pfo]
     IN IF fetch_k < k
        THEN Apply(t, Effect(Raised(rec, "ValueError"), texts_filter,
                             filter_owner, mode))
        ELSE Apply(t, StartStage(t, rec, pf_raises))

\* The awaited embed_documents returns and the call runs on to its next
\* suspension or to its end.
embed_documents_returns(t) ==
  /\ call[t].pc = "await"
  /\ LET rec0 == call[t]
         kmin == Min(rec0.search_k, Len(texts))
         \* history: the filter read at line 256 was installed by another,
         \* still running call and leaves out part of the corpus
         foreign == /\ ~IsNone(texts_filter)
                    /\ filter_owner \in Tasks \ {t}
                    /\ call[filter_owner].pc = "await"
                    /\ \E i \in 1..Len(Get(texts_filter)) : ~Get(texts_filter)[i]
         rec == [rec0 EXCEPT !.foreign_filter = @ \/ foreign]
     IN \E out \in SearchAfterEmbed(EmbedQuery(rec.q), kmin) :
          IF out.error # "none"
          THEN Apply(t, Effect(Raised(rec, out.error), texts_filter,
                               filter_owner, "DOCUMENT"))
          ELSE IF ~rec.partitioned
          THEN Apply(t, Effect(Complete(rec, out), texts_filter,
                               filter_owner, "DOCUMENT"))
          ELSE
            LET rec1 == [rec EXCEPT !.pkeys = Append(@, Head(rec.parts)),
                                    !.parts = Tail(@),
                                    !.pidx = Append(@, out.idx),
                                    !.ptexts = Append(@, out.texts),
                                    !.pscores = Append(@, out.scores)]
            IN IF rec1.parts # << >>
               THEN Apply(t, Effect(Suspended(rec1, "QUERY"),
                                    Some(Mask(rec1.text_partitions, Head(rec1.parts))),
                                    t, "QUERY"))
               ELSE Apply(t, Effect(Complete(rec1, MergePartitions(rec1)),
                                    None, "nobody", "DOCUMENT"))

\* The awaited embed_documents raises: the exception leaves every frame of
\* the call (no handler, no finally)
embed_documents_raises(t) ==
  /\ call[t].pc = "await"
  /\ call' = [call EXCEPT ![t] = Raised(call[t], "EmbedError")]
  /\ UNCHANGED << store, texts_filter, filter_owner, mode >>

\* the caller takes the outcome of its call
ReturnToCaller(t) ==
  /\ call[t].pc = "done"
  /\ call' = [call EXCEPT ![t] = IdleCall]
  /\ UNCHANGED << store, texts_filter, filter_owner, mode >>

\* partitioning_fn inputs: item j apart from the rest
PartFns == { [i \in Items |-> IF i = j THEN 1 ELSE 0] : j \in Items }

Search(t) ==
  \/ \E q \in Queries, k \in Ks : similarity_search(t, q, k)
  \/ \E q \in Queries, k \in Ks, pf \in PartFns, r \in BOOLEAN :
       partitioned_similarity_search(t, q, k, pf, r)
  \/ \E q \in Queries, k \in Ks, fetch_k \in Ks :
       max_marginal_relevance_search(t, q, k, fetch_k, None, FALSE)
  \/ \E q \in Queries, k \in Ks, fetch_k \in Ks, pf \in PartFns, r \in BOOLEAN :
       max_marginal_relevance_search(t, q, k, fetch_k, Some(pf), r)

Progress(t) ==
  \/ embed_documents_returns(t)
  \/ embed_documents_raises(t)
  \/ ReturnToCaller(t)

Mutate ==
  \/ \E batch \in Batches : add_texts_and_embeddings(batch)
  \/ clear

\* one caller: a call starts only when no other call is in flight
Next ==
  \/ Mutate
  \/ AllIdle /\ Search(MainTask)
  \/ Progress(MainTask)

Spec == Init /\ [][Next]_vars

\* partitioned searches only, one caller
NextPartitioned ==
  \/ Mutate
  \/ AllIdle /\ \E q \in Queries, k \in Ks, pf \in PartFns, r \in BOOLEAN :
                  partitioned_similarity_search(MainTask, q, k, pf, r)
  \/ Progress(MainTask)

\* construction with the default mmr_lambda = 1.0
InitDefault == Init /\ mmr_lambda = 10

SpecPartitioned == InitDefault /\ [][NextPartitioned]_vars

\* a partitioned search by one caller and a plain search by another, on a
\* store built with the default mmr_lambda
NextConcurrent ==
  \/ Mutate
  \/ \E q \in Queries, pf \in PartFns :
       partitioned_similarity_search(MainTask, q, MaxK, pf, FALSE)
  \/ \E t \in Tasks \ {MainTask}, q \in Queries : similarity_search(t, q, MaxK)
  \/ \E t \in Tasks : Progress(t)

SpecConcurrent == InitDefault /\ [][NextConcurrent]_vars

\* ================================================================ claims
Done(t) == call[t].pc = "done"
Returned(t) == Done(t) /\ call[t].outcome = "returned"
NonIncreasing(scores) ==
  \A i, j \in 1..Len(scores) : i < j => ~FLess(scores[i], scores[j])
MatrixRows == IF IsNone(embeddings_matrix) THEN 0 ELSE Len(Get(embeddings_matrix))

\* C1: similarity_search with k < 0 fails with ValueError and returns no
\* result list (unless the embedder itself failed first; the error numpy
\* raises on an empty matrix is counted as a ValueError, as its AxisError is).
C1_NegativeKRejected ==
  \A t \in Tasks :
    (Done(t) /\ call[t].op = "sim" /\ call[t].k < 0 /\ call[t].error # "EmbedError")
      => (call[t].outcome = "raised"
          /\ call[t].error \in {"ValueError", "NumpyError"}
          /\ call[t].res_texts = << >>)

\* the results similarity_search(q, k) can return on the present store
SimilarityResults(q, k) ==
  IF Min(k, Len(texts)) = 0 THEN { EmptyResult }
  ELSE { [idx |-> o.idx, texts |-> o.texts, scores |-> o.scores] :
           o \in { x \in SearchAfterEmbed(EmbedQuery(q), Min(k, Len(texts))) :
                     x.error = "none" } }

\* C2: with mmr_lambda = 1.0 and fetch_k >= k >= 0, what
\* max_marginal_relevance_search returns (no partitioning_fn) is a result of
\* similarity_search for k on the same store: same items, same scores, same
\* order, at most k entries.
C2_LambdaOneIsTopK ==
  \A t \in Tasks :
    (Returned(t) /\ call[t].op = "mmr" /\ ~call[t].partitioned
       /\ mmr_lambda = 10 /\ call[t].k >= 0)
      => /\ Len(call[t].res_texts) <= call[t].k
         /\ \E o \in SimilarityResults(call[t].q, call[t].k) :
              o.texts = call[t].res_texts /\ o.scores = call[t].res_scores

\* C3: when a partitioned search (direct, or through
\* max_marginal_relevance_search with a partitioning_fn) has ended, by
\* returning or by raising, _texts_filter is None.
C3_FilterClearedAtEnd ==
  \A t \in Tasks :
    (Done(t) /\ call[t].partitioned /\ call[t].k >= 0
       /\ call[t].search_k >= call[t].k)
      => IsNone(texts_filter)

\* C4: a similarity_search or partitioned_similarity_search call with k >= 0
\* has invoked embed_documents exactly once, in QUERY mode, and the embedder
\* is in DOCUMENT mode when the call has ended.
C4_EmbedOnceModeRestored ==
  \A t \in Tasks :
    (Done(t) /\ call[t].op \in {"sim", "part"} /\ call[t].k >= 0)
      => /\ call[t].embed_calls = 1
         /\ call[t].embed_in_query_mode
         /\ mode = "DOCUMENT"

\* C5: the list similarity_search returns for k >= 0 has non-increasing
\* scores, and items of equal score are in corpus (insertion) order.
C5_SortedStable ==
  \A t \in Tasks :
    (Returned(t) /\ call[t].op = "sim" /\ call[t].k >= 0)
      => /\ NonIncreasing(call[t].res_scores)
         /\ \A i, j \in 1..Len(call[t].res_idx) :
              (i < j /\ call[t].res_scores[i] = call[t].res_scores[j])
                => call[t].res_idx[i] < call[t].res_idx[j]

\* cosine score of corpus row i for query q, NaN canonicalized
RowScore(q, i) ==
  LET e == EmbOf(texts[i])
      den == Norm(EmbedQuery(q)) * Norm(e)
  IN IF den = 0 THEN NegInf ELSE Fin((Dot(EmbedQuery(q), e) * 100) \div den)

\* the (rank, partition) slots of the per-partition lists, and their
\* round-robin position: rank first, then partition order
Slots(lists) ==
  { s \in (1..MaxTexts + 1) \X (1..Len(lists)) :
      s[2] <= Len(lists) /\ s[1] <= Len(lists[s[2]]) }
SlotBefore(a, b) == a[1] < b[1] \/ (a[1] = b[1] /\ a[2] < b[2])
SlotAt(lists, i) ==
  CHOOSE s \in Slots(lists) :
    Cardinality({ x \in Slots(lists) : SlotBefore(x, s) }) = i - 1

PartitionedReturned(t) ==
  Returned(t) /\ call[t].op = "part" /\ call[t].k >= 0

\* C6: partitioned_similarity_search with k >= 0 returns the first k
\* elements of the round-robin interleave of the per-partition top-k lists,
\* partitions in ascending key order; each per-partition list holds the
\* min(k, size) best rows of its partition, best first; every returned item
\* has the key of the partition it was drawn from; partitions of 3 and 1
\* items with k = 4 give A0, B0, A1, A2.
C6_RoundRobinMerge ==
  \A t \in Tasks :
    PartitionedReturned(t) =>
      LET c == call[t]
          pf == Get(c.pf)
          np == Len(c.pkeys)
          rows(p) == { i \in 1..Len(texts) : pf[texts[i]] = c.pkeys[p] }
          listed(p) == { c.pidx[p][r] : r \in 1..Len(c.pidx[p]) }
          slots == Slots(c.pidx)
      IN /\ { c.pkeys[p] : p \in 1..np } = { pf[texts[i]] : i \in 1..Len(texts) }
         /\ \A p, r \in 1..np : p < r => c.pkeys[p] < c.pkeys[r]
         /\ Len(c.pidx) = np /\ Len(c.ptexts) = np /\ Len(c.pscores) = np
         /\ \A p \in 1..np :
              /\ Len(c.pidx[p]) = Min(c.k, Cardinality(rows(p)))
              /\ Cardinality(listed(p)) = Len(c.pidx[p])
              /\ listed(p) \subseteq rows(p)
              /\ NonIncreasing(c.pscores[p])
              /\ \A r \in 1..Len(c.pidx[p]) :
                   /\ c.ptexts[p][r] = texts[c.pidx[p][r]]
                   /\ c.pscores[p][r] = RowScore(c.q, c.pidx[p][r])
              /\ \A i \in rows(p) \ listed(p), r \in 1..Len(c.pidx[p]) :
                   ~FLess(c.pscores[p][r], RowScore(c.q, i))
         /\ Len(c.res_idx) = Min(c.k, Cardinality(slots))
         /\ Len(c.res_texts) = Len(c.res_idx)
         /\ Len(c.res_scores) = Len(c.res_idx)
         /\ \A i \in 1..Len(c.res_idx) :
              LET s == SlotAt(c.pidx, i)
              IN /\ c.res_idx[i] = c.pidx[s[2]][s[1]]
                 /\ c.res_texts[i] = c.ptexts[s[2]][s[1]]
                 /\ c.res_scores[i] = c.pscores[s[2]][s[1]]
                 /\ pf[c.res_texts[i]] = c.pkeys[s[2]]
         /\ (np = 2 /\ Cardinality(rows(1)) = 3 /\ Cardinality(rows(2)) = 1 /\ c.k = 4)
              => c.res_idx = << c.pidx[1][1], c.pidx[2][1], c.pidx[1][2], c.pidx[1][3] >>

\* C6 witness: a partitioned search with k = 4 over partitions of 3 and 1
\* rows has returned its 4 merged results
C6_Witness ==
  \E t \in Tasks :
    /\ PartitionedReturned(t) /\ call[t].k = 4
    /\ Len(call[t].pidx) = 2
    /\ Len(call[t].pidx[1]) = 3 /\ Len(call[t].pidx[2]) = 1
    /\ Len(call[t].res_texts) = 4

\* C7: the corpus is deduplicated and in sync: no two items of texts have
\* the same hash, and len(texts_hashes) = len(texts) = matrix row count.
C7_DeduplicatedInSync ==
  /\ \A i, j \in 1..Len(texts) : i # j => HashOf(texts[i]) # HashOf(texts[j])
  /\ Cardinality(texts_hashes) = Len(texts)
  /\ Len(texts) = MatrixRows

\* C8: when the MMR selection ran, the first returned item has the maximum
\* relevance score over all fetched candidates.
C8_SeedIsMostRelevant ==
  \A t \in Tasks :
    (Returned(t) /\ call[t].op = "mmr" /\ call[t].ran_mmr /\ call[t].k >= 1)
      => /\ Len(call[t].res_scores) >= 1
         /\ \A j \in 1..Len(call[t].cand_scores) :
              ~FLess(call[t].res_scores[1], call[t].cand_scores[j])

\* C9: for 0 <= k <= fetch_k, mmr_lambda < 1 and more than k candidates, the
\* MMR loop ends without raising and returns exactly k pairwise distinct
\* candidates with their original relevance scores.
C9_MMRSelectsKDistinct ==
  \A t \in Tasks :
    (Done(t) /\ call[t].op = "mmr" /\ call[t].ran_mmr
       /\ 0 <= call[t].k /\ call[t].k <= call[t].search_k)
      => LET c == call[t]
         IN /\ c.outcome = "returned"
            /\ Len(c.selected) = c.k
            /\ \A i, j \in 1..Len(c.selected) : i # j => c.selected[i] # c.selected[j]
            /\ Len(c.res_scores) = c.k
            /\ \A i \in 1..Len(c.res_scores) :
                 c.res_scores[i] = c.cand_scores[c.selected[i]]

\* C10: a plain similarity_search never ranks over the rows selected by the
\* filter of another, still running, partitioned search.
C10_FilterPrivateToCall ==
  \A t \in Tasks :
    (Done(t) /\ call[t].op = "sim") => ~call[t].foreign_filter

====
